---- MODULE Spec2Model ----
(***************************************************************************)
(* Model of alchemlyb/preprocessing/subsampling.py: slicing,               *)
(* statistical_inefficiency and equilibrium_detection.                     *)
(*                                                                         *)
(* A table (DataFrame) is a sequence of rows.  A row carries its index     *)
(* (time, lam) and an identity id standing for its observable values (the  *)
(* code never inspects them, it only hands them to pymbar).  The columns   *)
(* of the table are labelled by the lambda states (u_nk layout).           *)
(*                                                                         *)
(* pymbar.timeseries is an external library: its results are chosen        *)
(* nondeterministically among answers that respect its interface (an       *)
(* increasing set of in-range positions, a cutoff inside the series), or   *)
(* it raises.                                                              *)
(*                                                                         *)
(* Line 172 of the source ("if column:") has no body; the loop that        *)
(* follows it is at function level and is modelled as unconditional.       *)
(***************************************************************************)
EXTENDS Integers, Sequences, FiniteSets, TLC

\* ---------------------------------------------------------------- bounds
MaxRows == 3

\* an argument left at its default None
None == -1

\* the index values rows are drawn from
Times == {0, 1, 2}
Lams == {0, 1}
Keys == [time : Times, lam : Lams]

\* tables of at most MaxRows rows; row i of the input has id i
Tables ==
  UNION {{[i \in 1..n |-> [time |-> k[i].time, lam |-> k[i].lam, id |-> i]] :
            k \in [1..n -> Keys]} : n \in 0..MaxRows}

\* the arguments calls are made with
Lowers == {None, 1}
Uppers == {None, 1}
Steps == {None, 2}
ColumnLabels == Lams
Columns == {None, 1}
Hows == {"right"}

\* the statistics pymbar answers with, an inefficiency g and an effective
\* sample size: values the code stores or drops and never computes with, so
\* one sample of each, distinct from one another, stands for all
Inefficiencies == {2}
EffectiveSizes == {3}
Ops == {"slicing", "statistical_inefficiency", "equilibrium_detection"}

\* ------------------------------------------------------- table primitives
RECURSIVE Flatten(_)
Flatten(ss) == IF ss = <<>> THEN <<>> ELSE Head(ss) \o Flatten(Tail(ss))

RECURSIVE Reverse(_)
Reverse(s) == IF s = <<>> THEN <<>> ELSE Reverse(Tail(s)) \o <<Head(s)>>

\* index order of DataFrame.sort_index(): (time, lam) lexicographic
KeyLess(a, b) == a.time < b.time \/ (a.time = b.time /\ a.lam < b.lam)

\* insert r behind every row whose key is not greater (stable)
RECURSIVE InsertSorted(_, _)
InsertSorted(r, s) ==
  IF s = <<>> THEN <<r>>
  ELSE IF KeyLess(r, Head(s)) THEN <<r>> \o s
  ELSE <<Head(s)>> \o InsertSorted(r, Tail(s))

\* mutant: the table is left in its input order
sort_index_skipped(data) == data

\* data.sort_index(): rows with equal index keep their input order
RECURSIVE sort_index(_)
sort_index(data) ==
  IF data = <<>> THEN <<>>
  ELSE InsertSorted(data[Len(data)], sort_index(SubSeq(data, 1, Len(data) - 1)))

RECURSIVE SortedSeq(_)
SortedSeq(S) ==
  IF S = {} THEN <<>>
  ELSE LET m == CHOOSE x \in S : \A y \in S : x <= y
       IN <<m>> \o SortedSeq(S \ {m})

\* mutant: the group keys come in descending order
GroupNamesDescending(data) == Reverse(SortedSeq({data[i].lam : i \in 1..Len(data)}))

\* data.groupby(level=index_names): group keys in ascending order
GroupNames(data) == SortedSeq({data[i].lam : i \in 1..Len(data)})

\* the rows of one group, in the order of the table
GroupOf(data, name) == SelectSeq(data, LAMBDA r : r.lam = name)

\* mutant: the upper end of the slice is exclusive
LocSliceHalfOpen(group, lower, upper, step) ==
  LET start == IF lower = None THEN 0
               ELSE Cardinality({i \in 1..Len(group) : group[i].time < lower})
      stop == IF upper = None THEN Len(group)
              ELSE Cardinality({i \in 1..Len(group) : group[i].time < upper})
      st == IF step = None THEN 1 ELSE step
      n == IF stop > start THEN (stop - start + st - 1) \div st ELSE 0
  IN [j \in 1..n |-> group[start + 1 + (j - 1) * st]]

\* group.loc[lower:upper:step] on a time-sorted group: label slice on the
\* time level, both ends inclusive, then every step-th position
LocSlice(group, lower, upper, step) ==
  LET start == IF lower = None THEN 0
               ELSE Cardinality({i \in 1..Len(group) : group[i].time < lower})
      stop == IF upper = None THEN Len(group)
              ELSE Cardinality({i \in 1..Len(group) : group[i].time <= upper})
      st == IF step = None THEN 1 ELSE step
      n == IF stop > start THEN (stop - start + st - 1) \div st ELSE 0
  IN [j \in 1..n |-> group[start + 1 + (j - 1) * st]]

\* _check_multiple_times: some time value occurs twice
check_multiple_times(rows) ==
  \E i, j \in 1..Len(rows) : i < j /\ rows[i].time = rows[j].time

\* the loop of slicing over the groups still to do; the first group whose
\* slice has duplicate times raises unless force
RECURSIVE SlicingLoop(_, _, _, _, _, _, _)
SlicingLoop(sorted, names, lower, upper, step, force, resdata) ==
  IF names = <<>>
  THEN IF resdata = <<>>
       THEN [err |-> "no_objects", rows |-> <<>>]
       ELSE [err |-> "none", rows |-> Flatten(resdata)]
  ELSE LET group_s == LocSlice(GroupOf(sorted, Head(names)), lower, upper, step)
       IN IF ~force /\ check_multiple_times(group_s)
          THEN [err |-> "dup_slicing", rows |-> <<>>]
          ELSE SlicingLoop(sorted, Tail(names), lower, upper, step, force,
                           Append(resdata, group_s))

\* slicing(data, lower, upper, step, force)
slicing(d, lo, up, st, f) ==
  LET sorted == sort_index(d)
  IN SlicingLoop(sorted, GroupNames(sorted), lo, up, st, f, <<>>)

\* mutant: the step is not handed to slicing
InnerSlicingNoStep(group, lo, up, st) == slicing(group, lo, up, None, FALSE)

\* line 176 / 314: slicing(group, lower=lower, upper=upper, step=step);
\* force is not passed on, so the callee runs with its default False
InnerSlicing(group, lo, up, st) == slicing(group, lo, up, st, FALSE)

\* mutant: the check is never made
OwnCheckOff(f, group) == FALSE

\* mutant: the check is made when force is set
OwnCheckInverted(f, group) == f /\ check_multiple_times(group)

\* line 178 / 316: `not force and _check_multiple_times(group)`
OwnCheck(f, group) == ~f /\ check_multiple_times(group)

\* group_s[column]: the observable handed to pymbar, one value per row
Series(column_, rows) == [col |-> column_, vals |-> [i \in 1..Len(rows) |-> rows[i].id]]

\* mutant: nothing is cut off
TruncateNothing(rows, t) == rows

\* group_s.iloc[t:]
Truncate(rows, t) == SubSeq(rows, t + 1, Len(rows))

\* group_s.iloc[indices], indices a set of 0-based positions taken in
\* increasing order
Gather(rows, indices) ==
  LET idx == SortedSeq(indices) IN [j \in 1..Len(idx) |-> rows[idx[j] + 1]]

\* ------------------------------------------------- pymbar.timeseries
Failure == [ok |-> FALSE, t |-> None, g |-> None, Neff |-> None, indices |-> {}]

\* statisticalInefficiency + subsampleCorrelatedData on a series of n values
InefficiencyAnswers(n) ==
  {Failure} \cup
  {[ok |-> TRUE, t |-> None, g |-> g, Neff |-> None, indices |-> ix] :
     g \in Inefficiencies, ix \in SUBSET (0..(n - 1))}

\* detectEquilibration on n values, then subsampleCorrelatedData on the
\* n - t values that remain
EquilibrationAnswers(n) ==
  {Failure} \cup
  UNION {{[ok |-> TRUE, t |-> t, g |-> g, Neff |-> ne, indices |-> ix] :
            g \in Inefficiencies, ne \in EffectiveSizes, ix \in SUBSET (0..(n - t - 1))} :
         t \in 0..n}

\* pd.concat(resdata): an empty list of frames raises ValueError
Concat(frames) ==
  IF frames = <<>> THEN [err |-> "no_objects", rows |-> <<>>]
  ELSE [err |-> "none", rows |-> Flatten(frames)]

\* ------------------------------------------------------------- state
VARIABLES
  \* the arguments of the call
  op, data, lower, upper, step, force, column, how, return_calculated,
  \* the call: position, locals, outcome
  pc, sorted, todo, resdata, calculated, err, result,
  \* pymbar: the groups it was invoked on, its latest answer, and (while a
  \* second call is to follow) every answer it gave, by series
  invoked, detected, memo,
  \* a second call of the same operation on the reordered table data2
  callno, ncalls, data2, first

args == <<op, lower, upper, step, force, column, how, return_calculated>>
run == <<pc, sorted, todo, resdata, calculated, err, result>>
pymbar == <<invoked, detected, memo>>
pair == <<callno, ncalls, data2, first>>
vars == <<args, data, run, pymbar, pair>>

NoAnswer == [name |-> None, resp |-> Failure]
NoCall == [data |-> <<>>, err |-> "none", result |-> <<>>, calculated |-> {}]

InitArgs ==
  /\ op \in Ops
  /\ data \in Tables
  /\ lower \in Lowers
  /\ upper \in Uppers
  /\ step \in Steps
  /\ force \in BOOLEAN
  /\ column \in IF op = "slicing" THEN {None} ELSE Columns
  /\ how \in IF op = "slicing" THEN {"auto"} ELSE Hows
  /\ return_calculated \in IF op = "slicing" THEN {FALSE} ELSE BOOLEAN

InitRun ==
  /\ pc = "call"
  /\ sorted = <<>>
  /\ todo = <<>>
  /\ resdata = <<>>
  /\ calculated = {}
  /\ err = "none"
  /\ result = <<>>
  /\ invoked = {}
  /\ detected = NoAnswer

\* one call
Init ==
  /\ InitArgs
  /\ InitRun
  /\ memo = {}
  /\ callno = 1
  /\ ncalls = 1
  /\ data2 = data
  /\ first = NoCall

\* the call raises e: nothing is returned
Raise(e) ==
  /\ err' = e
  /\ pc' = "done"
  /\ result' = <<>>

\* what a deterministic collaborator may answer on a series: what it
\* answered on the same series before, else anything
Consistent(answers, series) ==
  LET prior == {e.resp : e \in {x \in memo : x.series = series}}
  IN IF prior = {} THEN answers ELSE prior

\* pymbar is invoked on the group name and answers resp
Invoke(name, series, resp) ==
  /\ invoked' = invoked \cup {name}
  /\ detected' = [name |-> name, resp |-> resp]
  /\ memo' = IF ncalls > 1
             THEN memo \cup {[series |-> series, resp |-> resp]}
             ELSE memo

\* ----------------------------------------------------------- slicing
slicing_call ==
  /\ pc = "call"
  /\ op = "slicing"
  /\ LET r == slicing(data, lower, upper, step, force)
     IN /\ err' = r.err
        /\ result' = r.rows
  /\ sorted' = sort_index(data)
  /\ pc' = "done"
  /\ UNCHANGED <<args, data, todo, resdata, calculated, pymbar, pair>>

\* ------------------------------------------- statistical_inefficiency
\* lines 163-170: sort, group names, empty result list
statistical_inefficiency_begin ==
  /\ pc = "call"
  /\ op = "statistical_inefficiency"
  /\ sorted' = sort_index(data)
  /\ todo' = GroupNames(sort_index(data))
  /\ pc' = "loop"
  /\ UNCHANGED <<args, data, resdata, calculated, err, result, pymbar, pair>>

\* the diagnostics stored for one group, line 193
Statinef(name, statinef) ==
  {[stat |-> "statinef", name |-> name, value |-> statinef]}

\* lines 174-193: one iteration of the loop
statistical_inefficiency_group ==
  /\ pc = "loop"
  /\ op = "statistical_inefficiency"
  /\ todo # <<>>
  /\ LET name == Head(todo)
         group == GroupOf(sorted, name)
         sl == InnerSlicing(group, lower, upper, step)
         group_s == sl.rows
         series == Series(column, group_s)
     IN IF sl.err # "none"
        THEN Raise(sl.err) /\ UNCHANGED <<todo, resdata, calculated, pymbar>>
        ELSE IF OwnCheck(force, group)
        THEN Raise("dup_check") /\ UNCHANGED <<todo, resdata, calculated, pymbar>>
        ELSE IF column \notin ColumnLabels
        THEN Raise("column_lookup") /\ UNCHANGED <<todo, resdata, calculated, pymbar>>
        ELSE \E resp \in Consistent(InefficiencyAnswers(Len(group_s)), series) :
               /\ Invoke(name, series, resp)
               /\ IF ~resp.ok
                  THEN Raise("collaborator") /\ UNCHANGED <<todo, resdata, calculated>>
                  ELSE /\ resdata' = Append(resdata, Gather(group_s, resp.indices))
                       /\ calculated' =
                            IF return_calculated
                            THEN calculated \cup Statinef(name, resp.g)
                            ELSE calculated
                       /\ todo' = Tail(todo)
                       /\ UNCHANGED <<pc, err, result>>
  /\ UNCHANGED <<args, data, sorted, pair>>

\* lines 195-198
statistical_inefficiency_return ==
  /\ pc = "loop"
  /\ op = "statistical_inefficiency"
  /\ todo = <<>>
  /\ err' = Concat(resdata).err
  /\ result' = Concat(resdata).rows
  /\ pc' = "done"
  /\ UNCHANGED <<args, data, sorted, todo, resdata, calculated, pymbar, pair>>

\* ---------------------------------------------- equilibrium_detection
\* lines 304-311
equilibrium_detection_begin ==
  /\ pc = "call"
  /\ op = "equilibrium_detection"
  /\ sorted' = sort_index(data)
  /\ todo' = GroupNames(sort_index(data))
  /\ pc' = "loop"
  /\ UNCHANGED <<args, data, resdata, calculated, err, result, pymbar, pair>>

\* the three diagnostics stored for one group, lines 333-336: every one of
\* them is assigned statinef
Diagnostics(name, t, statinef, Neff_max) ==
  {[stat |-> "t", name |-> name, value |-> statinef],
   [stat |-> "statinef", name |-> name, value |-> statinef],
   [stat |-> "Neff_max", name |-> name, value |-> statinef]}

\* lines 313-336: one iteration of the loop
equilibrium_detection_group ==
  /\ pc = "loop"
  /\ op = "equilibrium_detection"
  /\ todo # <<>>
  /\ LET name == Head(todo)
         group == GroupOf(sorted, name)
         sl == InnerSlicing(group, lower, upper, step)
         group_s == sl.rows
         series == Series(column, group_s)
     IN IF sl.err # "none"
        THEN Raise(sl.err) /\ UNCHANGED <<todo, resdata, calculated, pymbar>>
        ELSE IF OwnCheck(force, group)
        THEN Raise("dup_check") /\ UNCHANGED <<todo, resdata, calculated, pymbar>>
        ELSE IF column \notin ColumnLabels
        THEN Raise("column_lookup") /\ UNCHANGED <<todo, resdata, calculated, pymbar>>
        ELSE \E resp \in Consistent(EquilibrationAnswers(Len(group_s)), series) :
               /\ Invoke(name, series, resp)
               /\ IF ~resp.ok
                  THEN Raise("collaborator") /\ UNCHANGED <<todo, resdata, calculated>>
                  ELSE /\ resdata' = Append(resdata,
                                            Gather(Truncate(group_s, resp.t), resp.indices))
                       /\ calculated' =
                            IF return_calculated
                            THEN calculated \cup Diagnostics(name, resp.t, resp.g, resp.Neff)
                            ELSE calculated
                       /\ todo' = Tail(todo)
                       /\ UNCHANGED <<pc, err, result>>
  /\ UNCHANGED <<args, data, sorted, pair>>

\* lines 338-341
equilibrium_detection_return ==
  /\ pc = "loop"
  /\ op = "equilibrium_detection"
  /\ todo = <<>>
  /\ err' = Concat(resdata).err
  /\ result' = Concat(resdata).rows
  /\ pc' = "done"
  /\ UNCHANGED <<args, data, sorted, todo, resdata, calculated, pymbar, pair>>

Next ==
  \/ slicing_call
  \/ statistical_inefficiency_begin
  \/ statistical_inefficiency_group
  \/ statistical_inefficiency_return
  \/ equilibrium_detection_begin
  \/ equilibrium_detection_group
  \/ equilibrium_detection_return

Spec == Init /\ [][Next]_vars

\* ------------------------------------------------------ two calls
\* the reordering the second call is made on: the rows in index order, rows
\* of equal index in the reverse of their input order.  When no two rows
\* share an index this is the one sorted table of every ordering of the
\* rows, so that agreeing with it is agreeing with every reordering.
Reorderings(d) == {sort_index(Reverse(d))}

\* the same operation with the same arguments on a reordered table, the
\* collaborator being deterministic
InitPair ==
  /\ InitArgs
  /\ op # "slicing" => return_calculated /\ column \in ColumnLabels
  /\ InitRun
  /\ memo = {}
  /\ callno = 1
  /\ ncalls = 2
  /\ data2 \in Reorderings(data)
  /\ first = NoCall

\* the first call is over: the second one is made on data2
second_call ==
  /\ pc = "done"
  /\ callno < ncalls
  /\ first' = [data |-> data, err |-> err, result |-> result, calculated |-> calculated]
  /\ data' = data2
  /\ callno' = callno + 1
  /\ pc' = "call"
  /\ sorted' = <<>>
  /\ todo' = <<>>
  /\ resdata' = <<>>
  /\ calculated' = {}
  /\ err' = "none"
  /\ result' = <<>>
  /\ invoked' = {}
  /\ detected' = NoAnswer
  /\ UNCHANGED <<args, memo, ncalls, data2>>

NextPair ==
  \/ Next
  \/ second_call

SpecPair == InitPair /\ [][NextPair]_vars

\* =============================================================== claims
Done == pc = "done"
Returned == pc = "done" /\ err = "none"
Subsampling == op \in {"statistical_inefficiency", "equilibrium_detection"}
DupErrors == {"dup_slicing", "dup_check"}

Rows(t) == {t[i] : i \in 1..Len(t)}
NoRepeat(t) == \A i, j \in 1..Len(t) : i < j => t[i] # t[j]
RowsOf(t, name) == {r \in Rows(t) : r.lam = name}

\* no two rows of the table have the same (time, lam)
UniqueKeys(t) ==
  \A i, j \in 1..Len(t) : i < j => ~(t[i].time = t[j].time /\ t[i].lam = t[j].lam)

\* the groups of the table that hold a repeated time value
DupGroups(t) ==
  {n \in Lams : \E i, j \in 1..Len(t) :
     i < j /\ t[i].lam = n /\ t[j].lam = n /\ t[i].time = t[j].time}
FirstDup(t) == CHOOSE n \in DupGroups(t) : \A m \in DupGroups(t) : n <= m

InWindow(r) ==
  /\ lower = None \/ lower <= r.time
  /\ upper = None \/ r.time <= upper

\* r comes before q in their group: earlier time, or at the same time
\* earlier in the input
Pos(r) == CHOOSE i \in 1..Len(data) : data[i] = r
Before(r, q) == r.time < q.time \/ (r.time = q.time /\ Pos(r) < Pos(q))

\* the number of rows of r's group that lie in the window before r
Rank(r) ==
  Cardinality({q \in Rows(data) : q.lam = r.lam /\ InWindow(q) /\ Before(q, r)})

Stride == IF step = None THEN 1 ELSE step

\* the rows slicing is to keep
Kept == {r \in Rows(data) : InWindow(r) /\ Rank(r) % Stride = 0}

\* result lists the groups in ascending lambda order, each by ascending time
GroupedByTime(t) ==
  \A i, j \in 1..Len(t) : i < j =>
    \/ t[i].lam < t[j].lam
    \/ t[i].lam = t[j].lam /\ Before(t[i], t[j])

\* C1: for every group, the rows statistical_inefficiency returns are rows
\* that slicing with the same bounds returns for that group, and their
\* time values are strictly increasing
C1_SubsetOfSlicing ==
  (op = "statistical_inefficiency" /\ Returned) =>
    LET sl == slicing(data, lower, upper, step, FALSE)
    IN /\ sl.err = "none"
       /\ \A n \in Lams : RowsOf(result, n) \subseteq RowsOf(sl.rows, n)
       /\ \A i, j \in 1..Len(result) :
            (i < j /\ result[i].lam = result[j].lam) => result[i].time < result[j].time

C1_Witness ==
  /\ op = "statistical_inefficiency"
  /\ Returned
  /\ callno = 1
  /\ \E i, j \in 1..Len(result) : i < j /\ result[i].lam = result[j].lam
  /\ Len(result) < Len(slicing(data, lower, upper, step, FALSE).rows)

\* C2 (as claimed): with force=True none of the three operations raises the
\* duplicate-timestamp error
C2_ForceSuppressesCheck ==
  (Done /\ force) => err \notin DupErrors

\* C3 (as claimed): when a call with force=False ends in the
\* duplicate-timestamp error, the collaborator has not been invoked on any
\* group of that call
C3_RaisedBeforeAnyAnalysis ==
  (Subsampling /\ ~force /\ Done /\ err \in DupErrors) => invoked = {}

\* C3 (amended): with force=False the collaborator is never invoked on a
\* group that holds a repeated time nor on any group after the first such
\* group; a duplicate-timestamp error is raised at that first group
C3_NoAnalysisFromFirstDup ==
  (Subsampling /\ ~force) =>
    LET dups == DupGroups(data)
        firstdup == FirstDup(data)
    IN dups # {} =>
         /\ \A n \in invoked : n < firstdup
         /\ (Done /\ err \in DupErrors) =>
              /\ Head(todo) = firstdup
              /\ invoked = {n \in Rows(GroupNames(sorted)) : n < firstdup}

C3_Witness ==
  /\ Subsampling
  /\ ~force
  /\ callno = 1
  /\ Done
  /\ err \in DupErrors
  /\ invoked # {}

\* C4: slicing returns, group by group in time order, exactly the rows with
\* lower <= time <= upper whose rank among the qualifying rows of their own
\* group is a multiple of step
C4_SlicingKeeps ==
  (op = "slicing" /\ Returned /\ callno = 1) =>
    /\ Rows(result) = Kept
    /\ NoRepeat(result)
    /\ GroupedByTime(result)

C4_Witness ==
  /\ op = "slicing"
  /\ Returned
  /\ callno = 1
  /\ step = 2
  /\ lower = 1
  /\ result # <<>>
  /\ \E r \in Rows(data) : ~InWindow(r)
  /\ \E r \in Rows(data) : InWindow(r) /\ r \notin Rows(result)

\* C5 (as claimed): on a table with unique per-group times, slicing without
\* bounds returns the input sorted by (time, lambda)
C5_IdentityIsSortedInput ==
  (op = "slicing" /\ Returned /\ callno = 1 /\ lower = None /\ upper = None
     /\ step = None /\ UniqueKeys(data)) =>
    result = sort_index(data)

\* C5 (amended): on a non-empty table with unique per-group times, slicing
\* without bounds returns every input row once, the groups in ascending
\* lambda order and each group by ascending time; an empty table raises
C5_IdentityIsGroupedInput ==
  (op = "slicing" /\ Done /\ callno = 1 /\ lower = None /\ upper = None
     /\ step = None /\ UniqueKeys(data)) =>
    IF data = <<>>
    THEN err = "no_objects"
    ELSE /\ err = "none"
         /\ Len(result) = Len(data)
         /\ Rows(result) = Rows(data)
         /\ \A i, j \in 1..Len(result) : i < j =>
              \/ result[i].lam < result[j].lam
              \/ result[i].lam = result[j].lam /\ result[i].time < result[j].time

C5_Witness ==
  /\ op = "slicing"
  /\ Returned
  /\ callno = 1
  /\ lower = None /\ upper = None /\ step = None
  /\ UniqueKeys(data)
  /\ Len(data) = MaxRows
  /\ result # sort_index(data)

\* the sliced group the collaborator was last invoked on, before truncation
DetectedGroup ==
  InnerSlicing(GroupOf(sorted, detected.name), lower, upper, step).rows

\* C6: no row equilibrium_detection keeps for a group is earlier in time
\* than the row at the cutoff position t of the sliced group
C6_NothingBeforeCutoff ==
  (op = "equilibrium_detection" /\ detected.resp.ok) =>
    LET group_s == DetectedGroup
        t == detected.resp.t
        kept == resdata[Len(resdata)]
    IN t < Len(group_s) =>
         /\ \A i \in 1..Len(kept) : kept[i].time >= group_s[t + 1].time
         /\ Returned =>
              \A r \in RowsOf(result, detected.name) : r.time >= group_s[t + 1].time

C6_Witness ==
  /\ op = "equilibrium_detection"
  /\ Returned
  /\ callno = 1
  /\ detected.resp.ok
  /\ detected.resp.t >= 1
  /\ detected.resp.t < Len(DetectedGroup)
  /\ RowsOf(result, detected.name) # {}

\* C7 (as claimed): the diagnostics of equilibrium_detection hold, for a
\* group, the cutoff t, the inefficiency g and the effective sample size
\* the collaborator returned for it
C7_DiagnosticsReportEachOutput ==
  (op = "equilibrium_detection" /\ return_calculated /\ detected.resp.ok) =>
    /\ [stat |-> "t", name |-> detected.name, value |-> detected.resp.t] \in calculated
    /\ [stat |-> "statinef", name |-> detected.name, value |-> detected.resp.g] \in calculated
    /\ [stat |-> "Neff_max", name |-> detected.name, value |-> detected.resp.Neff] \in calculated

\* C8 (as claimed): with column unset and how='right' the call does not
\* fail for want of a column
C8_HowSelectsColumn ==
  (Subsampling /\ column = None /\ how = "right" /\ Done) => err # "column_lookup"

\* the outcome of the call as the caller sees it
Outcome ==
  [err |-> err, result |-> result,
   calculated |-> IF return_calculated /\ err = "none" THEN calculated ELSE {}]
FirstOutcome ==
  [err |-> first.err, result |-> first.result,
   calculated |-> IF return_calculated /\ first.err = "none" THEN first.calculated ELSE {}]

\* C9 (as claimed): two calls with the same arguments on tables that
\* differ only in row order have the same outcome
C9_OrderIndependent ==
  (callno = 2 /\ Done) => Outcome = FirstOutcome

\* C9 (amended): they have the same outcome when no two rows of the table
\* share their (time, lambda) key
C9_OrderIndependentUniqueKeys ==
  (callno = 2 /\ Done /\ UniqueKeys(data)) => Outcome = FirstOutcome

C9_Witness ==
  /\ callno = 2
  /\ Returned
  /\ op = "statistical_inefficiency"
  /\ UniqueKeys(data)
  /\ data # first.data
  /\ sort_index(first.data) # first.data
  /\ Len(result) >= 2
  /\ Outcome = FirstOutcome

====
